---- MODULE Spec2Model ----
(***************************************************************************)
(* The caching, cancelable query hook of src/src/hooks/useQueryAdvanced.js *)
(* (useQuery), as a state machine.                                         *)
(*                                                                         *)
(* State: the module-level `cache` object, one reducer state per hook      *)
(* instance (a mounted component calling useQuery), and the promise chains *)
(* fetch(url).then(r => r.json()).then(..).catch(..) that are in flight.   *)
(*                                                                         *)
(* Steps: the effect of useEffect (cleanup of the previous effect followed *)
(* by the new effect body), the cleanup at unmount, and the settling of    *)
(* the two promises of a chain (the fetch promise and the r.json()         *)
(* promise), each followed by the handler the code attached to it.         *)
(***************************************************************************)
EXTENDS Naturals, Sequences, FiniteSets

\* ------------------------------------------------------------------ bounds
\* Number of effect runs (one request each) explored in one behaviour.
MaxRequests == 3

\* Hook instances (components calling useQuery) and the keys they may use.
Insts == {"A", "B"}
Urls == {"/posts/1", "/posts/2"}

\* ------------------------------------------------------------- JS values
\* `undefined` (a property the cache object does not have) and `null`.
Undefined == "undefined"
Null == "null"

\* JSON values a response body can decode to, written as their JSON text:
\* an empty array (what /posts answers with no posts) and the number 0.
Payloads == {"[]", "0"}

\* JavaScript ToBoolean, as applied by `if (cache[url])`.
Truthy(v) == v \notin {Undefined, Null, "0", "false", "NaN", ""}

\* The status line of a Response: success, or not found.  fetch fulfils
\* with the Response in both cases, and the chain never reads r.ok or
\* r.status: the model records the status when the body read settles.
Statuses == {"200", "404"}

\* ------------------------------------------------------------- variables
VARIABLES
    cache,      \* url -> cached value, Undefined when the key is absent
    inst,       \* per hook instance: lifecycle, url prop, reducer state, current request
    reqs,       \* the promise chains created so far, in creation order
    transport   \* how the global fetch treats an aborted signal

vars == <<cache, inst, reqs, transport>>

ReqIds == DOMAIN reqs

\* --------------------------------------------------------------- reducer
Action(type, payload) == [type |-> type, payload |-> payload]

fetchReducerKeepsFields(state, action) ==
    CASE action.type = "pending" ->
            [status |-> "pending", data |-> Null, error |-> Null]
      [] action.type = "resolved" ->
            [status |-> "resolved", data |-> action.payload, error |-> state.error]
      [] action.type = "rejected" ->
            [status |-> "rejected", data |-> state.data, error |-> action.payload]

fetchReducerRejectedKeepsData(state, action) ==
    CASE action.type = "pending" ->
            [status |-> "pending", data |-> Null, error |-> Null]
      [] action.type = "resolved" ->
            [status |-> "resolved", data |-> action.payload, error |-> Null]
      [] action.type = "rejected" ->
            [status |-> "rejected", data |-> state.data, error |-> action.payload]

fetchReducer(state, action) ==
    CASE action.type = "pending" ->
            [status |-> "pending", data |-> Null, error |-> Null]
      [] action.type = "resolved" ->
            [status |-> "resolved", data |-> action.payload, error |-> Null]
      [] action.type = "rejected" ->
            [status |-> "rejected", data |-> Null, error |-> action.payload]

\* useReducer's initial state; initialData defaults to null.
InitialState == [status |-> "idle", data |-> Null, error |-> Null]

\* dispatch of the instance o: the reducer applied to its state.  React drops
\* an update of a component that is no longer mounted.
dispatch(i, o, action) ==
    IF i[o].life = "mounted"
    THEN [i EXCEPT ![o].state = fetchReducer(@, action)]
    ELSE i

\* ----------------------------------------------------- abortable fetch
\* controller.abort(): the signal reaches the fetch of chain r, if that
\* chain exists and has not settled.  On a settled chain abort() finds
\* nothing to cancel (`aborted` = the signal fired while the chain was live).
abortRestarts(rs, r) ==
    IF r \in DOMAIN rs
    THEN [rs EXCEPT ![r].aborted = TRUE, ![r].phase = "fetching"]
    ELSE rs

abort(rs, r) ==
    IF r \in DOMAIN rs /\ rs[r].phase # "done"
    THEN [rs EXCEPT ![r].aborted = TRUE]
    ELSE rs

\* fetch(url): a new chain, its fetch promise pending.  `seen` and `first`
\* record what the effect read from the cache and which action it
\* dispatched before issuing the request.
NewRequest(o, url, seen, first) ==
    [owner |-> o, url |-> url, aborted |-> FALSE, phase |-> "fetching",
     status |-> "none", data |-> Undefined, err |-> "none", dispatched |-> "none",
     seen |-> seen, first |-> first]

\* fetch(url, { ...options, signal }), line 10: whether the fetch promise or
\* the body read of chain r may still complete other than by an AbortError.
\* The Fetch standard rejects both with an AbortError once the signal it was
\* given is aborted; a best-effort transport may let them complete.
MayFulfilWithoutSignal(r) == TRUE

MayFulfil(r) == ~reqs[r].aborted \/ transport = "bestEffort"

\* ------------------------------------------------------------ the effect
\* What the effect body dispatches before fetching (lines 45-51).
firstActionAlwaysCached(url) == Action("resolved", cache[url])

firstAction(url) ==
    IF Truthy(cache[url])
    THEN Action("resolved", cache[url])
    ELSE Action("pending", Null)

\* The effect as it would be if a cached key were served from the cache alone.
StartNoRefetch(o, url) ==
    /\ Len(reqs) < MaxRequests
    /\ \/ inst[o].life = "new"
       \/ inst[o].life = "mounted" /\ inst[o].url # url
    /\ LET cleaned == abort(reqs, inst[o].cur)
           a == firstAction(url)
           id == Len(reqs) + 1
           hit == a.type = "resolved"
           mounted == [inst EXCEPT ![o].life = "mounted", ![o].url = url,
                                   ![o].cur = IF hit THEN @ ELSE id]
       IN /\ inst' = dispatch(mounted, o, a)
          /\ reqs' = IF hit THEN cleaned
                     ELSE Append(cleaned, NewRequest(o, url, cache[url], a.type))
    /\ UNCHANGED <<cache, transport>>

\* useEffect(..., [url]) for instance o with the url prop `url`: on mount, or
\* when the prop changed.  React runs the previous effect's cleanup (abort)
\* and then the effect body.
Start(o, url) ==
    /\ Len(reqs) < MaxRequests
    /\ \/ inst[o].life = "new"
       \/ inst[o].life = "mounted" /\ inst[o].url # url
    /\ LET cleaned == abort(reqs, inst[o].cur)
           a == firstAction(url)
           id == Len(reqs) + 1
           mounted == [inst EXCEPT ![o].life = "mounted", ![o].url = url, ![o].cur = id]
       IN /\ inst' = dispatch(mounted, o, a)
          /\ reqs' = Append(cleaned, NewRequest(o, url, cache[url], a.type))
    /\ UNCHANGED <<cache, transport>>

\* The component unmounts: React runs the cleanup of the last effect.
Unmount(o) ==
    /\ inst[o].life = "mounted"
    /\ reqs' = abort(reqs, inst[o].cur)
    /\ inst' = [inst EXCEPT ![o].life = "unmounted"]
    /\ UNCHANGED <<cache, transport>>

\* ------------------------------------------------------------- handlers
\* .catch((err) => ...), lines 68-74: the actions the handler dispatches.
catchHandlerNoFilter(err) == <<Action("rejected", err)>>

catchHandler(err) ==
    IF err # "AbortError" THEN <<Action("rejected", err)>> ELSE <<>>

\* .then((data) => ...), lines 62-67: the actions the handler dispatches.
thenHandler(data) == <<Action("resolved", data)>>

\* The instances after the actions `as` were dispatched by a chain of o.
dispatchAll(i, o, as) == IF as = <<>> THEN i ELSE dispatch(i, o, as[1])

\* The type of the action a handler dispatched, "none" if it dispatched none.
dispatchedType(as) == IF as = <<>> THEN "none" ELSE as[1].type

\* cache[url] = data, line 64.
cacheWriteOnce(c, url, data) ==
    IF c[url] = Undefined THEN [c EXCEPT ![url] = data] ELSE c

cacheWrite(c, url, data) == [c EXCEPT ![url] = data]

\* The fetch promise fulfils with a Response; the chain goes on to r.json().
FetchFulfil(r) ==
    /\ r \in ReqIds
    /\ reqs[r].phase = "fetching"
    /\ MayFulfil(r)
    /\ reqs' = [reqs EXCEPT ![r].phase = "reading"]
    /\ UNCHANGED <<cache, inst, transport>>

\* The chain rejects with err and the catch handler runs.
Reject(r, status, err) ==
    /\ inst' = dispatchAll(inst, reqs[r].owner, catchHandler(err))
    /\ reqs' = [reqs EXCEPT ![r].phase = "done", ![r].status = status, ![r].err = err,
                            ![r].dispatched = dispatchedType(catchHandler(err))]
    /\ UNCHANGED <<cache, transport>>

\* The fetch promise rejects: a network failure (TypeError), or an
\* AbortError when the signal is aborted.
FetchReject(r) ==
    /\ r \in ReqIds
    /\ reqs[r].phase = "fetching"
    /\ \/ MayFulfil(r) /\ Reject(r, "none", "TypeError")
       \/ reqs[r].aborted /\ Reject(r, "none", "AbortError")

\* r.json() fulfils with the decoded body and the success handler of
\* lines 62-67 runs.
JsonFulfil(r, status, data) ==
    /\ r \in ReqIds
    /\ reqs[r].phase = "reading"
    /\ MayFulfil(r)
    /\ cache' = cacheWrite(cache, reqs[r].url, data)
    /\ inst' = dispatchAll(inst, reqs[r].owner, thenHandler(data))
    /\ reqs' = [reqs EXCEPT ![r].phase = "done", ![r].status = status, ![r].data = data,
                            ![r].dispatched = dispatchedType(thenHandler(data))]
    /\ UNCHANGED transport

\* r.json() rejects: the body is not JSON (SyntaxError), or the body read
\* was aborted (AbortError).
JsonReject(r) ==
    /\ r \in ReqIds
    /\ reqs[r].phase = "reading"
    /\ \/ MayFulfil(r) /\ \E status \in Statuses : Reject(r, status, "SyntaxError")
       \/ reqs[r].aborted /\ Reject(r, "none", "AbortError")

\* ------------------------------------------------------- specifications
InitCommon ==
    /\ cache = [u \in Urls |-> Undefined]
    /\ inst = [o \in Insts |->
                 [life |-> "new", url |-> Undefined, cur |-> 0, state |-> InitialState]]
    /\ reqs = <<>>

\* The global fetch follows the Fetch standard.
Init == InitCommon /\ transport = "standard"

\* The global fetch is a transport whose cancellation is best-effort.
InitBestEffort == InitCommon /\ transport = "bestEffort"

Next ==
    \/ \E o \in Insts, url \in Urls : Start(o, url)
    \/ \E o \in Insts : Unmount(o)
    \/ \E r \in 1..MaxRequests : FetchFulfil(r)
    \/ \E r \in 1..MaxRequests : FetchReject(r)
    \/ \E r \in 1..MaxRequests, status \in Statuses, data \in Payloads :
          JsonFulfil(r, status, data)
    \/ \E r \in 1..MaxRequests : JsonReject(r)

Spec == Init /\ [][Next]_vars

SpecBestEffort == InitBestEffort /\ [][Next]_vars

\* ------------------------------------------------------- vocabulary
Mounted(o) == inst[o].life = "mounted"

\* The chain issued by the last effect run of o.
Cur(o) == reqs[inst[o].cur]

\* Chain r runs its completion handler in this step.
Settles(r) == reqs[r].phase # "done" /\ reqs'[r].phase = "done"

Pending == [status |-> "pending", data |-> Null, error |-> Null]
Resolved(v) == [status |-> "resolved", data |-> v, error |-> Null]

\* ------------------------------------------------------------------ C1
\* C1: when start(k1) is followed by start(k2), k1 # k2, before the k1
\* request completes, the completion of the k1 request never changes the
\* instance's status/data/error, also when the transport's cancellation is
\* best-effort and the k1 chain still settles after abort().
\* Stated for every transport; checked under SpecBestEffort.
C1_StaleCompletionIgnored ==
    [][\A r \in ReqIds :
          ( /\ Settles(r)
            /\ reqs[r].aborted
            /\ Mounted(reqs[r].owner)
            /\ inst[reqs[r].owner].url # reqs[r].url )
          => inst'[reqs[r].owner].state = inst[reqs[r].owner].state]_vars

\* ------------------------------------------------------------------ C2
\* C2: once cancel() has run for a request (cleanup on key change or on
\* teardown), the completion of that request never writes the cache.
C2_CanceledNeverWritesCache ==
    [][\A r \in ReqIds : (Settles(r) /\ reqs[r].aborted) => cache' = cache]_vars

\* A chain canceled by teardown has settled, and so has one canceled by a
\* key change of an instance that is still mounted.
C2_Witness ==
    /\ \E r \in ReqIds :
          reqs[r].aborted /\ reqs[r].phase = "done" /\ inst[reqs[r].owner].life = "unmounted"
    /\ \E r \in ReqIds :
          reqs[r].aborted /\ reqs[r].phase = "done" /\ Mounted(reqs[r].owner)

\* ------------------------------------------------------------------ C3
\* C3: for every non-canceled request, a network failure, a non-success
\* HTTP response (404) or a decode error ends with a rejected action, error
\* populated and data = null; a non-success response is never stored in the
\* cache and never yields status = resolved.
FailedResponse(r) ==
    \/ reqs[r].status = "404"
    \/ reqs[r].err \in {"TypeError", "SyntaxError"}

C3_FailureRejects ==
    \A r \in ReqIds :
        (reqs[r].phase = "done" /\ ~reqs[r].aborted /\ FailedResponse(r))
        => /\ reqs[r].dispatched = "rejected"
           /\ reqs[r].data = Undefined
           /\ (Mounted(reqs[r].owner) /\ inst[reqs[r].owner].cur = r)
                => /\ inst[reqs[r].owner].state.status = "rejected"
                   /\ inst[reqs[r].owner].state.error # Null
                   /\ inst[reqs[r].owner].state.data = Null

\* ------------------------------------------------------------------ C4
\* C4: round trip through the cache.  For every key and every decodable
\* payload P, empty or falsy ones included: after a non-canceled fetch
\* succeeds with P the state is resolved with data = P, and a start on a
\* key whose cache entry is P shows resolved with data = P at once, while
\* its own request is still in flight.
C4_CacheRoundTrip ==
    \A o \in Insts :
        Mounted(o) =>
            /\ (Cur(o).phase = "done" /\ Cur(o).dispatched = "resolved")
                 => inst[o].state = Resolved(Cur(o).data)
            /\ (Cur(o).phase # "done" /\ Cur(o).seen # Undefined)
                 => inst[o].state = Resolved(Cur(o).seen)

\* ------------------------------------------------------------------ C5
\* C5: start(k) while the cache holds no entry for k puts the instance in
\* pending (data = null, error = null) at once, and the instance does not
\* report resolved for k before the request issued by that start has
\* completed successfully.
C5_MissStartsPending ==
    \A o \in Insts :
        (Mounted(o) /\ Cur(o).seen = Undefined)
        => /\ Cur(o).phase # "done" => inst[o].state = Pending
           /\ inst[o].state.status = "resolved"
                => (Cur(o).phase = "done" /\ Cur(o).dispatched = "resolved")

\* An instance went k1 -> k2 -> k1 with nothing cached for k1: its first
\* k1 chain was canceled and has settled, and the new k1 chain is in flight.
C5_Witness ==
    \E o \in Insts :
        /\ Mounted(o)
        /\ Cur(o).seen = Undefined
        /\ Cur(o).phase = "reading"
        /\ \E r \in ReqIds :
              /\ r # inst[o].cur
              /\ reqs[r].owner = o
              /\ reqs[r].url = Cur(o).url
              /\ reqs[r].aborted
              /\ reqs[r].phase = "done"

\* ------------------------------------------------------------------ C6
\* C6: cancellation is not an error.  When a chain rejects with an
\* AbortError its handler dispatches nothing, so status, data and error stay
\* as they were; the cleanup itself leaves them alone too, and an instance
\* turns rejected only through a chain of its own failing with another error.
C6_AbortIsSilent ==
    [][/\ \A r \in ReqIds :
            (Settles(r) /\ reqs'[r].err = "AbortError")
            => (inst' = inst /\ cache' = cache)
       /\ \A o \in Insts :
            /\ (Mounted(o) /\ inst'[o].life = "unmounted")
                 => inst'[o].state = inst[o].state
            /\ (inst'[o].state.status = "rejected" /\ inst'[o].state # inst[o].state)
                 => \E r \in ReqIds :
                       /\ reqs[r].owner = o
                       /\ Settles(r)
                       /\ reqs'[r].err \in {"TypeError", "SyntaxError"}]_vars

\* A chain canceled by a key change has rejected with an AbortError, and its
\* instance, still mounted, shows the pending state of the newer start.
C6_Witness ==
    \E r \in ReqIds :
        /\ reqs[r].phase = "done"
        /\ reqs[r].err = "AbortError"
        /\ reqs[r].dispatched = "none"
        /\ Mounted(reqs[r].owner)
        /\ inst[reqs[r].owner].state = Pending

\* ------------------------------------------------------------------ C7
\* C7: in every reachable state of every instance, status is one of idle,
\* pending, resolved, rejected; resolved implies error = null and rejected
\* implies data = null.
C7_StateConsistent ==
    \A o \in Insts :
        /\ inst[o].state.status \in {"idle", "pending", "resolved", "rejected"}
        /\ inst[o].state.status = "resolved" => inst[o].state.error = Null
        /\ inst[o].state.status = "rejected" => inst[o].state.data = Null

\* One instance is rejected after having shown a cached value, and another
\* is resolved from the cache after a request of its own had failed.
C7_Witness ==
    /\ \E o \in Insts :
          /\ Mounted(o)
          /\ Truthy(Cur(o).seen)
          /\ Cur(o).dispatched = "rejected"
          /\ inst[o].state.status = "rejected"
    /\ \E o \in Insts :
          /\ Mounted(o)
          /\ inst[o].state.status = "resolved"
          /\ \E r \in ReqIds : reqs[r].owner = o /\ reqs[r].dispatched = "rejected"

\* ------------------------------------------------------------------ C8
\* C8: instances on the same key keep independent states: the state of an
\* instance changes only by its own start or by the completion of one of its
\* own chains, never by a failure or cancel of another instance's request.
\* All write the one cache entry of the key by plain overwrite: after every
\* successful completion cache[k] is the payload of that completion, so
\* after two of them it is the payload of the one that ran last.
C8_IndependentStateSharedCache ==
    [][/\ \A o \in Insts :
            inst'[o].state # inst[o].state
            => \/ inst'[o].cur # inst[o].cur
               \/ \E r \in ReqIds : reqs[r].owner = o /\ Settles(r)
       /\ \A r \in ReqIds :
            (Settles(r) /\ reqs'[r].dispatched = "resolved")
            => cache'[reqs[r].url] = reqs'[r].data]_vars

\* Two instances on the same key have both succeeded, with different
\* payloads: each shows its own payload, the cache holds one of the two.
C8_Witness ==
    \E a, b \in Insts :
        /\ a # b /\ Mounted(a) /\ Mounted(b)
        /\ inst[a].url = inst[b].url
        /\ Cur(a).dispatched = "resolved" /\ Cur(b).dispatched = "resolved"
        /\ Cur(a).data # Cur(b).data
        /\ inst[a].state = Resolved(Cur(a).data)
        /\ inst[b].state = Resolved(Cur(b).data)
        /\ cache[inst[a].url] = Cur(b).data

\* ------------------------------------------------------------------ C9
\* C9, as claimed: every start(key), cache hit or not, takes the instance to
\* or through pending and issues a fresh request for key.
FreshRequestIssued(o) ==
    /\ inst[o].cur \in ReqIds
    /\ Cur(o).owner = o
    /\ Cur(o).url = inst[o].url
    /\ \A r \in ReqIds : reqs[r].owner = o => r <= inst[o].cur

C9_EveryStartGoesPending ==
    /\ \A r \in ReqIds : reqs[r].first = "pending"
    /\ \A o \in Insts : Mounted(o) => FreshRequestIssued(o)

\* C9, amended: every start(key) issues a fresh request for key; it puts the
\* instance in pending only when the cache holds no truthy entry for key.
\* On a cache hit the only action dispatched is resolved, and the instance
\* shows the cached value, not pending, while that request is in flight.
C9_FreshRequestPendingOnlyOnMiss ==
    /\ \A r \in ReqIds :
          /\ reqs[r].first = "pending" <=> ~Truthy(reqs[r].seen)
          /\ reqs[r].first = "resolved" <=> Truthy(reqs[r].seen)
    /\ \A o \in Insts :
          Mounted(o) =>
            /\ FreshRequestIssued(o)
            /\ (Cur(o).phase # "done" /\ Truthy(Cur(o).seen))
                 => inst[o].state = Resolved(Cur(o).seen)

\* A start hit the cache: its request is in flight and the instance shows
\* the cached value.
C9_Witness ==
    \E o \in Insts :
        /\ Mounted(o)
        /\ Truthy(Cur(o).seen)
        /\ Cur(o).phase = "fetching"
        /\ inst[o].state.status = "resolved"

\* ----------------------------------------------------------------- C10
\* C10: cancel() is idempotent and harmless after completion.  A cleanup
\* that runs after the request has resolved or rejected changes neither the
\* cache nor the settled chain, and at teardown not the instance's state
\* either; a chain that has settled never runs a handler again; calling
\* abort() again on any chain changes nothing more.
C10_CancelAfterCompletionIsNoOp ==
    [][/\ \A o \in Insts :
            (Mounted(o) /\ Cur(o).phase = "done" /\ inst'[o] # inst[o])
            => /\ cache' = cache
               /\ reqs'[inst[o].cur] = Cur(o)
               /\ inst'[o].life = "unmounted" => inst'[o].state = inst[o].state
       /\ \A r \in ReqIds :
            /\ reqs[r].phase = "done" => reqs'[r] = reqs[r]
            /\ abort(abort(reqs, r), r) = abort(reqs, r)]_vars

\* An instance was torn down after its request had resolved, and still
\* holds the resolved state; another chain was canceled while in flight.
C10_Witness ==
    /\ \E o \in Insts :
          /\ inst[o].life = "unmounted"
          /\ Cur(o).dispatched = "resolved"
          /\ ~Cur(o).aborted
          /\ inst[o].state = Resolved(Cur(o).data)
    /\ \E r \in ReqIds : reqs[r].aborted

\* ----------------------------------------------------------------- C11
\* C11: a failed request (its chain rejects with a network or decode error)
\* never modifies the cache, and no step removes a cache entry.  When a start
\* hit the cache (resolved with the cached value v) and its fresh request
\* then fails without being canceled, the instance moves to rejected with
\* data = null and the error, while the cache entry is left as it was: if it
\* still was v, it is v afterwards and a start on the key shows v again.
Rejected(e) == [status |-> "rejected", data |-> Null, error |-> e]

Fails(r) == Settles(r) /\ reqs'[r].err \in {"TypeError", "SyntaxError"}

C11_FailureLeavesCache ==
    [][/\ \A u \in Urls : cache[u] # Undefined => cache'[u] # Undefined
       /\ \A r \in ReqIds :
            Fails(r) =>
              /\ cache' = cache
              /\ ( /\ Mounted(reqs[r].owner)
                   /\ inst[reqs[r].owner].cur = r
                   /\ Truthy(reqs[r].seen) )
                 => /\ inst[reqs[r].owner].state.status = "resolved"
                    /\ inst'[reqs[r].owner].state = Rejected(reqs'[r].err)
                    /\ cache[reqs[r].url] = reqs[r].seen
                         => (firstAction(reqs[r].url))' = Action("resolved", reqs[r].seen)]_vars

\* A start hit the cache and its request then failed: the instance is
\* rejected with data = null and the cache still holds the value it showed.
C11_Witness ==
    \E o \in Insts :
        /\ Mounted(o)
        /\ Truthy(Cur(o).seen)
        /\ Cur(o).phase = "done"
        /\ ~Cur(o).aborted
        /\ Cur(o).err = "SyntaxError"
        /\ inst[o].state = Rejected("SyntaxError")
        /\ cache[inst[o].url] = Cur(o).seen

====
